---- MODULE Spec2Model ----
(***************************************************************************)
(* State-machine model of the Shopify orders gateway: the shop domain     *)
(* validator, the flat-file token store, the OAuth routes (/auth and      *)
(* /auth/callback), the bearer gate and the orders routes under /v1.      *)
(*                                                                         *)
(* JavaScript strings that the code inspects character by character (the  *)
(* shop parameter, the limit parameter) are sequences of one-character    *)
(* strings.  Values the code only compares or passes on (tokens, codes,   *)
(* secrets, header values) are TLA+ strings.                               *)
(***************************************************************************)
EXTENDS Integers, Sequences, FiniteSets, TLC

\* ------------------------------------------------------------------------
\* Bounds of the model
\* ------------------------------------------------------------------------

\* number of nonces GET /auth may issue in one run
MaxNonces == 2

\* number of orders requests that may be waiting for Shopify at one time
MaxPending == 2

\* ------------------------------------------------------------------------
\* JavaScript values
\* ------------------------------------------------------------------------

\* an environment variable that is not set (process.env.X is undefined)
Unset == "<unset>"

\* !v for a value that is a string or undefined
Falsy(v) == v \in {Unset, ""}

\* a query parameter that is absent (req.query.x is undefined), for the
\* parameters modelled as character sequences
Undefined == <<"undefined">>

\* the JavaScript value null, where a character sequence is expected
Null == <<"null">>

\* !s for a character sequence, undefined or null
FalsySeq(s) == s \in {Undefined, Null, <<>>}

\* typeof s === 'string'
IsString(s) == s \notin {Undefined, Null}

\* ------------------------------------------------------------------------
\* Characters
\* ------------------------------------------------------------------------

LowerLetters == <<"a","b","c","d","e","f","g","h","i","j","k","l","m",
                  "n","o","p","q","r","s","t","u","v","w","x","y","z">>

UpperLetters == <<"A","B","C","D","E","F","G","H","I","J","K","L","M",
                  "N","O","P","Q","R","S","T","U","V","W","X","Y","Z">>

Digits == {"0","1","2","3","4","5","6","7","8","9"}

Range(f) == {f[i] : i \in DOMAIN f}

\* [a-z0-9]
LowerAlnum == Range(LowerLetters) \cup Digits

\* [a-zA-Z0-9]
Alnum == LowerAlnum \cup Range(UpperLetters)

\* the characters String.prototype.trim removes
Whitespace == {" ", "\t", "\n"}

\* one character of String.prototype.toLowerCase
LowerChar(c) ==
  IF c \in Range(UpperLetters)
    THEN LowerLetters[CHOOSE i \in DOMAIN UpperLetters : UpperLetters[i] = c]
    ELSE c

toLowerCase(s) == [i \in DOMAIN s |-> LowerChar(s[i])]

RECURSIVE trimStart(_)
trimStart(s) ==
  IF s # <<>> /\ Head(s) \in Whitespace THEN trimStart(Tail(s)) ELSE s

RECURSIVE trimEnd(_)
trimEnd(s) ==
  IF s # <<>> /\ s[Len(s)] \in Whitespace
    THEN trimEnd(SubSeq(s, 1, Len(s) - 1))
    ELSE s

\* String.prototype.trim
trim(s) == trimEnd(trimStart(s))

\* s starts with p, compared without regard to case (p is lower case)
StartsWithNoCase(s, p) ==
  /\ Len(s) >= Len(p)
  /\ \A i \in DOMAIN p : LowerChar(s[i]) = p[i]

EndsWith(s, p) ==
  /\ Len(s) >= Len(p)
  /\ SubSeq(s, Len(s) - Len(p) + 1, Len(s)) = p

Drop(s, n) == SubSeq(s, n + 1, Len(s))

HttpScheme == <<"h","t","t","p",":","/","/">>

HttpsScheme == <<"h","t","t","p","s",":","/","/">>

\* s.replace(/^https?:\/\//i, '')
StripScheme(s) ==
  IF StartsWithNoCase(s, HttpsScheme) THEN Drop(s, Len(HttpsScheme))
  ELSE IF StartsWithNoCase(s, HttpScheme) THEN Drop(s, Len(HttpScheme))
  ELSE s

\* s.split('/')[0]
BeforeSlash(s) ==
  IF \E i \in DOMAIN s : s[i] = "/"
    THEN LET k == CHOOSE i \in DOMAIN s :
                    s[i] = "/" /\ \A j \in 1..(i - 1) : s[j] # "/"
         IN  SubSeq(s, 1, k - 1)
    ELSE s

RECURSIVE StripTrailingSlashes(_)
\* s.replace(/\/+$/, '')
StripTrailingSlashes(s) ==
  IF s # <<>> /\ s[Len(s)] = "/"
    THEN StripTrailingSlashes(SubSeq(s, 1, Len(s) - 1))
    ELSE s

\* ------------------------------------------------------------------------
\* Shop domain validator (src/src/utils/shopValidator.js)
\* ------------------------------------------------------------------------

MyshopifySuffix == <<".","m","y","s","h","o","p","i","f","y",".","c","o","m">>

normalizeShopDomain(shop) ==
  IF FalsySeq(shop) \/ ~IsString(shop)
    THEN Null
    ELSE toLowerCase(StripTrailingSlashes(BeforeSlash(StripScheme(trim(shop)))))

\* /^[a-z0-9][a-z0-9-]*[a-z0-9]\.myshopify\.com$|^[a-z0-9]\.myshopify\.com$/
shopRegex(s) ==
  /\ EndsWith(s, MyshopifySuffix)
  /\ LET name == SubSeq(s, 1, Len(s) - Len(MyshopifySuffix))
     IN  /\ Len(name) >= 1
         /\ name[1] \in LowerAlnum
         /\ name[Len(name)] \in LowerAlnum
         /\ \A i \in DOMAIN name : name[i] \in LowerAlnum \cup {"-"}

isValidShopDomain(shop) ==
  LET normalized == normalizeShopDomain(shop)
  IN  IF FalsySeq(normalized) THEN FALSE ELSE shopRegex(normalized)

EmptyShopError == "Shop parameter is empty or invalid type"

MalformedShopError == "Shop must be a valid .myshopify.com domain"

validateAndNormalizeShop(shop) ==
  LET normalized == normalizeShopDomain(shop)
  IN  IF FalsySeq(normalized)
        THEN [valid |-> FALSE, normalized |-> Null, original |-> shop,
              error |-> EmptyShopError]
      ELSE IF ~isValidShopDomain(normalized)
        THEN [valid |-> FALSE, normalized |-> normalized, original |-> shop,
              error |-> MalformedShopError]
      ELSE [valid |-> TRUE, normalized |-> normalized, original |-> shop,
            error |-> "null"]

\* /^[a-zA-Z0-9][a-zA-Z0-9-]*\.myshopify\.com$/ of the earlier OAuth routes
legacyShopRegex(s) ==
  /\ EndsWith(s, MyshopifySuffix)
  /\ LET name == SubSeq(s, 1, Len(s) - Len(MyshopifySuffix))
     IN  /\ Len(name) >= 1
         /\ name[1] \in Alnum
         /\ \A i \in DOMAIN name : name[i] \in Alnum \cup {"-"}

\* isValidShopDomain of the earlier OAuth routes: no normalisation
legacyIsValidShopDomain(shop) ==
  IF FalsySeq(shop) \/ ~IsString(shop) THEN FALSE ELSE legacyShopRegex(shop)

\* ------------------------------------------------------------------------
\* State
\* ------------------------------------------------------------------------

VARIABLES
  env,         \* process.env: fixed when the process starts
  variant,     \* which of the two versions of the routes and the gate runs
  nonceStore,  \* the Map of the OAuth routes: nonce -> [shop]
  timers,      \* the setTimeout callbacks yet to run: nonce -> "waiting"
               \* while its ten minutes run, "due" once they are over
  nonceCount,  \* number of nonces generateNonce has produced
  shopsFile,   \* shops.json: [state, table]
  pending,     \* handlers suspended at their await, each with its locals
  issued,      \* history: nonce -> the shop GET /auth bound it to
  consumed,    \* history: the nonces a callback has deleted from nonceStore
  last         \* the step a handler took last: the request and its response

vars == <<env, variant, nonceStore, timers, nonceCount, shopsFile,
          pending, issued, consumed, last>>

\* ------------------------------------------------------------------------
\* Token store (src/src/store/shops.js)
\* ------------------------------------------------------------------------

\* the timestamps the code stores and never reads (installed_at of a shop
\* record, createdAt of a nonce) are left out of the records
EmptyTable == [d \in {} |-> [access_token |-> ""]]

\* readShops: a missing or malformed file reads as the empty table
readShops(file) == IF file.state = "ok" THEN file.table ELSE EmptyTable

\* writeShops when fs.writeFileSync succeeds
writeShopsOk(shops) == [state |-> "ok", table |-> shops]

\* what a failed fs.writeFileSync can leave behind: the file as it was (the
\* open failed) or a truncated file (the write failed after the open)
writeShopsFailed(file) == {file, [state |-> "malformed", table |-> EmptyTable]}

\* a record already there is kept
putShop_keep(shops, shop, accessToken) ==
  IF shop \in DOMAIN shops THEN shops
  ELSE [d \in DOMAIN shops \cup {shop} |->
          IF d = shop THEN [access_token |-> accessToken] ELSE shops[d]]

\* the table written with the one record only
putShop_alone(shops, shop, accessToken) ==
  [d \in {shop} |-> [access_token |-> accessToken]]

\* shops[shop] = {access_token, installed_at}
putShop(shops, shop, accessToken) ==
  [d \in DOMAIN shops \cup {shop} |->
     IF d = shop THEN [access_token |-> accessToken] ELSE shops[d]]

\* true returned whether or not the write failed
saveShopToken_true(file, shop, accessToken) ==
  LET shops == putShop(readShops(file), shop, accessToken)
  IN  {[file |-> f, saved |-> TRUE] :
         f \in {writeShopsOk(shops)} \cup writeShopsFailed(file)}

\* saveShopToken: the files it can leave and the boolean it returns with each
saveShopToken(file, shop, accessToken) ==
  LET shops == putShop(readShops(file), shop, accessToken)
  IN  {[file |-> writeShopsOk(shops), saved |-> TRUE]}
        \cup {[file |-> f, saved |-> FALSE] : f \in writeShopsFailed(file)}

\* getShopToken: shops[shop]?.access_token || null ("" stands for null)
getShopToken(file, shop) ==
  LET shops == readShops(file)
  IN  IF shop \in DOMAIN shops THEN shops[shop].access_token ELSE ""

isShopAuthenticated(file, shop) == getShopToken(file, shop) # ""

\* getAllShops
getAllShops(file) == DOMAIN readShops(file)

\* the record not deleted
removeShop_kept(file, shop) == {[file |-> file, removed |-> TRUE]}

\* removeShop: the files it can leave and the boolean it returns with each;
\* a shop with no record is answered false without a write
removeShop(file, shop) ==
  LET shops == readShops(file)
  IN  IF shop \in DOMAIN shops
        THEN {[file |-> writeShopsOk([d \in DOMAIN shops \ {shop} |-> shops[d]]),
               removed |-> TRUE]}
               \cup {[file |-> f, removed |-> FALSE] :
                       f \in writeShopsFailed(file)}
        ELSE {[file |-> file, removed |-> FALSE]}

\* ------------------------------------------------------------------------
\* Inputs of the model
\* ------------------------------------------------------------------------

ShopA == <<"a">> \o MyshopifySuffix

ShopB == <<"b">> \o MyshopifySuffix

\* "A.myshopify.com"
ShopUpperA == <<"A">> \o MyshopifySuffix

\* "https://a.myshopify.com/admin"
ShopUrlA == HttpsScheme \o ShopA \o <<"/","a","d","m","i","n">>

\* "a.myshopify.com /x": a space before the path
ShopSpaceA == ShopA \o <<" ","/","x">>

\* "evil.com"
ShopEvil == <<"e","v","i","l",".","c","o","m">>

\* the values of the shop query parameter the requests of the model carry
ShopInputs == {Undefined, ShopA, ShopB, ShopUrlA, ShopEvil}

\* every shop value of the module
AllShopInputs ==
  {Undefined, <<>>, ShopA, ShopB, ShopUpperA, ShopUrlA, ShopSpaceA, ShopEvil}

\* validateAndNormalizeShop over the shop values of the module, computed once
ShopValidation == [shop \in AllShopInputs |-> validateAndNormalizeShop(shop)]

\* legacyIsValidShopDomain over the shop values of the module, computed once
LegacyShopValid == [shop \in AllShopInputs |-> legacyIsValidShopDomain(shop)]

\* the access tokens Shopify may hand out
Tokens == {"shpat_1", "shpat_2"}

\* the value of each environment variable when it is set (the bearer secret
\* is a character sequence: the gate compares it with a slice of the header)
EnvValue ==
  [SHOPIFY_API_KEY |-> "key", SHOPIFY_API_SECRET |-> "shh",
   SCOPES |-> "read_orders", HOST |-> "https://app.example",
   API_BEARER_TOKEN |-> <<"s","3">>]

\* a secret that is not the client secret
WrongSecret == "guess"

\* ------------------------------------------------------------------------
\* HMAC of the callback (src/unnamed/part_002)
\* ------------------------------------------------------------------------

\* the keys of the callback's query other than hmac, as Array.sort orders them
SortedKeys == <<"code", "shop", "state">>

\* the parameter is in req.query
Present(query, key) ==
  CASE key = "code" -> query.code # ""
    [] key = "shop" -> query.shop # Undefined
    [] key = "state" -> query.state # 0

\* key=value&key=value over the sorted keys that are present
sortedParams(query) ==
  LET pair(k) == CASE k = "code" -> <<k, query.code>>
                   [] k = "shop" -> <<k, query.shop>>
                   [] k = "state" -> <<k, query.state>>
  IN  [i \in DOMAIN SortedKeys |->
         IF Present(query, SortedKeys[i]) THEN pair(SortedKeys[i])
                                           ELSE <<"absent">>]

\* crypto.createHmac('sha256', secret).update(message).digest('hex'): a
\* digest is determined by the key and the message, and differs when either
\* differs
createHmac(secret, message) == [key |-> secret, message |-> message]

\* no hmac parameter in the query
NoHmac == [key |-> "undefined", message |-> <<>>]

\* hmac= with an empty value
EmptyHmac == [key |-> "", message |-> <<>>]

\* !query.hmac
FalsyHmac(hmac) == hmac \in {NoHmac, EmptyHmac}

verifyHmac(query, secret) ==
  IF FalsyHmac(query.hmac)
    THEN FALSE
    ELSE query.hmac = createHmac(secret, sortedParams(query))

\* the hmac values a callback with these other parameters may carry: none,
\* an empty one, Shopify's signature of this query, a signature under another
\* key, and Shopify's signature of a query with another code
HmacInputs(query) ==
  {NoHmac, EmptyHmac,
   createHmac(EnvValue.SHOPIFY_API_SECRET, sortedParams(query)),
   createHmac(WrongSecret, sortedParams(query)),
   createHmac(EnvValue.SHOPIFY_API_SECRET,
              sortedParams([query EXCEPT !.code = "code0"]))}

\* ------------------------------------------------------------------------
\* OAuth configuration
\* ------------------------------------------------------------------------

\* the client secret not looked at
getOAuthConfigMissing_noSecret(e) ==
  {k \in {"SHOPIFY_API_KEY", "SCOPES", "HOST"} : Falsy(e[k])}

\* getOAuthConfig: the names of the missing variables; the handler answers
\* 500 when there is one
getOAuthConfigMissing(e) ==
  {v \in {"SHOPIFY_API_KEY", "SHOPIFY_API_SECRET", "SCOPES", "HOST"} :
     Falsy(e[v])}

\* the check of GET /auth in the earlier routes
legacyAuthConfigMissing(e) ==
  Falsy(e.SHOPIFY_API_KEY) \/ Falsy(e.SCOPES) \/ Falsy(e.HOST)

\* the check of GET /auth/callback in the earlier routes
legacyCallbackConfigMissing(e) ==
  Falsy(e.SHOPIFY_API_KEY) \/ Falsy(e.SHOPIFY_API_SECRET)

\* ------------------------------------------------------------------------
\* GET /auth (src/unnamed/part_002 and, earlier, src/src/routes/auth.js)
\* ------------------------------------------------------------------------

\* the checks of GET /auth up to generateNonce: the response when one fails,
\* else status 302 and the shop the nonce is bound to
authStart(v, e, shop) ==
  IF FalsySeq(shop)
    THEN [status |-> 400, error |-> "Missing required parameter: shop",
          shop |-> Null]
  ELSE IF v = "current"
    THEN LET validation == ShopValidation[shop]
         IN  IF ~validation.valid
               THEN [status |-> 400, error |-> "Invalid shop domain",
                     shop |-> Null]
             ELSE IF getOAuthConfigMissing(e) # {}
               THEN [status |-> 500, error |-> "Server configuration error",
                     shop |-> Null]
             ELSE [status |-> 302, error |-> "", shop |-> validation.normalized]
  ELSE IF ~LegacyShopValid[shop]
    THEN [status |-> 400, error |-> "Invalid shop domain", shop |-> Null]
  ELSE IF legacyAuthConfigMissing(e)
    THEN [status |-> 500, error |-> "Server configuration error",
          shop |-> Null]
  ELSE [status |-> 302, error |-> "", shop |-> shop]

\* every call returns the same value
generateNonce_same(count) == 1

\* generateNonce: 16 random bytes; no two calls return the same value
generateNonce(count) == count + 1


\* nonceStore.set(nonce, {shop, createdAt})
nonceSet(store, nonce, shop) ==
  [n \in DOMAIN store \cup {nonce} |->
     IF n = nonce THEN [shop |-> shop] ELSE store[n]]

\* no timer set
setTimeout_none(pendingTimers, nonce) == pendingTimers

\* setTimeout(() => nonceStore.delete(nonce), 10 * 60 * 1000)
setTimeout(pendingTimers, nonce) ==
  [n \in DOMAIN pendingTimers \cup {nonce} |->
     IF n = nonce THEN "waiting" ELSE pendingTimers[n]]

\* the delete left out
nonceDelete_kept(store, nonce) == store

\* every entry deleted
nonceDelete_all(store, nonce) == [n \in {} |-> store[n]]

\* the first nonce never deleted
nonceDelete_notFirst(store, nonce) ==
  [n \in DOMAIN store \ ({nonce} \ {1}) |-> store[n]]

\* nonceStore.delete(nonce)
nonceDelete(store, nonce) == [n \in DOMAIN store \ {nonce} |-> store[n]]

\* the Location of the redirect
authorizeUrl(e, shop, nonce) ==
  [host |-> shop, path |-> "/admin/oauth/authorize",
   client_id |-> e.SHOPIFY_API_KEY, scope |-> e.SCOPES,
   redirect_uri |-> <<e.HOST, "/auth/callback">>, state |-> nonce]

NoUrl ==
  [host |-> Null, path |-> "", client_id |-> "", scope |-> "",
   redirect_uri |-> <<"", "">>, state |-> 0]

GetAuth(shop) ==
  LET r == authStart(variant, env, shop)
      nonce == generateNonce(nonceCount)
  IN  /\ r.status = 302 => nonceCount < MaxNonces
      /\ IF r.status = 302
           THEN /\ nonceStore' = nonceSet(nonceStore, nonce, r.shop)
                /\ timers' = setTimeout(timers, nonce)
                /\ nonceCount' = nonce
                /\ issued' = [n \in DOMAIN issued \cup {nonce} |->
                                IF n = nonce THEN r.shop ELSE issued[n]]
           ELSE UNCHANGED <<nonceStore, timers, nonceCount, issued>>
      /\ last' = [op |-> "auth", shop |-> shop, status |-> r.status,
                  error |-> r.error,
                  location |-> IF r.status = 302
                                 THEN authorizeUrl(env, r.shop, nonce)
                                 ELSE NoUrl]
      /\ UNCHANGED <<env, variant, shopsFile, pending, consumed>>

\* the callback setTimeout scheduled for this nonce runs: no earlier than
\* ten minutes after it was set, and with no bound on how much later
TimerFire(nonce) ==
  /\ nonce \in DOMAIN timers
  /\ timers[nonce] = "due"
  /\ nonceStore' = nonceDelete(nonceStore, nonce)
  /\ timers' = [n \in DOMAIN timers \ {nonce} |-> timers[n]]
  /\ UNCHANGED <<env, variant, nonceCount, shopsFile, pending, issued,
                 consumed, last>>

\* time passes: ten minutes are over for this timer, and so for every timer
\* set before it
TimePasses(nonce) ==
  /\ nonce \in DOMAIN timers
  /\ timers[nonce] = "waiting"
  /\ timers' = [n \in DOMAIN timers |-> IF n <= nonce THEN "due" ELSE timers[n]]
  /\ UNCHANGED <<env, variant, nonceStore, nonceCount, shopsFile, pending,
                 issued, consumed, last>>

\* ------------------------------------------------------------------------
\* GET /auth/callback (src/unnamed/part_002 and src/src/routes/auth.js)
\* ------------------------------------------------------------------------

\* !shop || !code || !state
missingCallbackParams(query) ==
  FalsySeq(query.shop) \/ query.code = "" \/ query.state = 0

\* the check left out
hmacRejected_never(query, secret) == FALSE

\* a callback without hmac rejected too
hmacRejected_required(query, secret) == ~verifyHmac(query, secret)

\* req.query.hmac && !verifyHmac(req.query, clientSecret)
hmacRejected(query, secret) ==
  ~FalsyHmac(query.hmac) /\ ~verifyHmac(query, secret)

\* !storedNonce, for storedNonce = nonceStore.get(state)
nonceMissing(store, state) == state \notin DOMAIN store

\* the comparison left out
shopMismatch_never(stored, shop) == FALSE

\* storedNonce.shop !== normalizedShop
shopMismatch(stored, shop) == stored.shop # shop

\* the response of a handler that answers before its await
Reject(status, error, deleted) ==
  [status |-> status, error |-> error, shop |-> Null, deleted |-> deleted,
   exchange |-> FALSE]

\* the handler up to its await: the response when a check fails; whether
\* nonceStore.delete(state) ran; whether the POST to
\* https://<shop>/admin/oauth/access_token was sent, and for which shop
callbackChecks(v, e, store, query) ==
  IF missingCallbackParams(query)
    THEN Reject(400, "Missing required parameters", FALSE)
  ELSE IF v = "current"
    THEN LET validation == ShopValidation[query.shop]
             normalizedShop == validation.normalized
         IN  IF ~validation.valid
               THEN Reject(400, "Invalid shop domain", FALSE)
             ELSE IF getOAuthConfigMissing(e) # {}
               THEN Reject(500, "Server configuration error", FALSE)
             ELSE IF hmacRejected(query, e.SHOPIFY_API_SECRET)
               THEN Reject(403, "HMAC verification failed", FALSE)
             ELSE IF nonceMissing(store, query.state)
               THEN Reject(403, "Invalid state parameter", FALSE)
             ELSE IF shopMismatch(store[query.state], normalizedShop)
               THEN Reject(403, "Shop mismatch", FALSE)
             ELSE [status |-> 0, error |-> "", shop |-> normalizedShop,
                   deleted |-> TRUE, exchange |-> TRUE]
  ELSE IF ~LegacyShopValid[query.shop]
    THEN Reject(400, "Invalid shop domain", FALSE)
  ELSE IF nonceMissing(store, query.state)
    THEN Reject(403, "Invalid state parameter", FALSE)
  ELSE IF shopMismatch(store[query.state], query.shop)
    THEN Reject(403, "Shop mismatch", FALSE)
  ELSE IF legacyCallbackConfigMissing(e)
    THEN Reject(500, "Server configuration error", TRUE)
  ELSE [status |-> 0, error |-> "", shop |-> query.shop,
        deleted |-> TRUE, exchange |-> TRUE]

\* a query with every required parameter and no hmac
FullQuery(shop, state) ==
  [shop |-> shop, code |-> "code1", state |-> state, hmac |-> NoHmac]

\* the queries a callback of the model may carry: for shop A every state with
\* every hmac; for the other valid shops every state, unsigned; a query for
\* an invalid shop; and queries that lack one required parameter
CallbackQueries ==
  UNION {{[FullQuery(ShopA, state) EXCEPT !.hmac = h] :
            h \in HmacInputs(FullQuery(ShopA, state))} :
         state \in 1..MaxNonces}
    \cup {FullQuery(shop, state) :
            shop \in {ShopB, ShopUrlA}, state \in 1..MaxNonces}
    \cup {FullQuery(ShopEvil, 1), FullQuery(Undefined, 1),
          [FullQuery(ShopA, 1) EXCEPT !.code = ""],
          FullQuery(ShopA, 0)}

\* GET /auth/callback from its start to its first await, or to its response
\* when it answers before
AuthCallback(query) ==
  LET r == callbackChecks(variant, env, nonceStore, query)
  IN  /\ nonceStore' = IF r.deleted THEN nonceDelete(nonceStore, query.state)
                                    ELSE nonceStore
      /\ pending' = IF r.exchange
                      THEN pending \cup
                             {[op |-> "callback", shop |-> r.shop,
                               state |-> query.state,
                               seen |-> getShopToken(shopsFile, r.shop)]}
                      ELSE pending
      /\ consumed' = IF r.deleted THEN consumed \cup {query.state}
                                  ELSE consumed
      /\ last' = [op |-> "callback", phase |-> "sync", query |-> query,
                  status |-> r.status, error |-> r.error, shop |-> r.shop,
                  upstream |-> IF r.exchange THEN "POST access_token"
                                             ELSE "none",
                  live |-> query.state \in DOMAIN nonceStore,
                  replay |-> query.state \in consumed,
                  overdue |-> /\ query.state \in DOMAIN issued
                              /\ query.state \in DOMAIN timers
                                    => timers[query.state] = "due",
                  changed |-> FALSE]
      /\ UNCHANGED <<env, variant, timers, nonceCount, shopsFile, issued>>

\* the HTTP statuses with which Shopify may refuse the token exchange (axios
\* rejects with error.response set)
ExchangeErrorStatuses == {400}

\* what the POST of the token exchange can come to: a 2xx response whose body
\* carries an access_token or none (""), a response with an error status, or
\* no response at all
ExchangeOutcomes ==
  {[kind |-> "ok", access_token |-> t, status |-> 200] : t \in Tokens \cup {""}}
    \cup {[kind |-> "http_error", access_token |-> "", status |-> st] :
            st \in ExchangeErrorStatuses}
    \cup {[kind |-> "transport_error", access_token |-> "", status |-> 0]}

\* the check left out
noAccessToken_never(outcome) == FALSE

\* !access_token
noAccessToken(outcome) == outcome.access_token = ""

\* the handler after its await: the responses it can give, each with the
\* file it leaves
callbackFinish(file, shop, outcome) ==
  IF outcome.kind = "http_error"
    THEN {[status |-> outcome.status, error |-> "OAuth token exchange failed",
           message |-> "", file |-> file, result |-> "http_error"]}
  ELSE IF outcome.kind = "transport_error"
    THEN {[status |-> 500, error |-> "Failed to complete OAuth flow",
           message |-> "transport", file |-> file,
           result |-> "transport_error"]}
  ELSE IF noAccessToken(outcome)
    THEN {[status |-> 500, error |-> "Failed to complete OAuth flow",
           message |-> "No access_token in response", file |-> file,
           result |-> "no_token"]}
  ELSE {IF s.saved
          THEN [status |-> 200, error |-> "", message |-> "",
                file |-> s.file, result |-> "saved"]
          ELSE [status |-> 500, error |-> "Failed to complete OAuth flow",
                message |-> "Failed to save access token", file |-> s.file,
                result |-> "save_failed"] :
        s \in saveShopToken(file, shop, outcome.access_token)}

\* GET /auth/callback from the return of its await to its response
CallbackResume(p, outcome) ==
  /\ p \in pending
  /\ p.op = "callback"
  /\ \E r \in callbackFinish(shopsFile, p.shop, outcome) :
       /\ shopsFile' = r.file
       /\ last' = [op |-> "callback", phase |-> "resume", shop |-> p.shop,
                   state |-> p.state, outcome |-> outcome,
                   status |-> r.status, error |-> r.error,
                   message |-> r.message, upstream |-> "none",
                   seen |-> p.seen,
                   before |-> getShopToken(shopsFile, p.shop),
                   changed |-> shopsFile' # shopsFile]
  /\ pending' = pending \ {p}
  /\ UNCHANGED <<env, variant, nonceStore, timers, nonceCount, issued,
                 consumed>>

\* ------------------------------------------------------------------------
\* The OAuth flow
\* ------------------------------------------------------------------------

\* the environments of the model: each OAuth variable set or not
OAuthEnvs ==
  {[SHOPIFY_API_KEY |-> k, SHOPIFY_API_SECRET |-> s, SCOPES |-> sc,
    HOST |-> h, API_BEARER_TOKEN |-> EnvValue.API_BEARER_TOKEN] :
     k \in {Unset, EnvValue.SHOPIFY_API_KEY},
     s \in {Unset, EnvValue.SHOPIFY_API_SECRET},
     sc \in {Unset, EnvValue.SCOPES},
     h \in {Unset, EnvValue.HOST}}

NoNonces == [n \in {} |-> [shop |-> Null]]

\* the process as it starts, running version v of the routes and the gate
InitVersion(v) ==
  /\ env \in OAuthEnvs
  /\ variant = v
  /\ nonceStore = NoNonces
  /\ timers = [n \in {} |-> "waiting"]
  /\ nonceCount = 0
  /\ shopsFile = [state |-> "missing", table |-> EmptyTable]
  /\ pending = {}
  /\ issued = [n \in {} |-> Null]
  /\ consumed = {}
  /\ last = [op |-> "none"]

Next ==
  \/ \E shop \in ShopInputs : GetAuth(shop)
  \/ \E query \in CallbackQueries : AuthCallback(query)
  \/ \E p \in pending, outcome \in ExchangeOutcomes : CallbackResume(p, outcome)
  \/ \E nonce \in DOMAIN timers : TimerFire(nonce)
  \/ \E nonce \in DOMAIN timers : TimePasses(nonce)

\* the routes of src/unnamed/part_002
Init == InitVersion("current")

Spec == Init /\ [][Next]_vars

\* the routes of src/src/routes/auth.js
InitLegacy == InitVersion("legacy")

\* the values of the shop query parameter sent to the earlier routes, which
\* test the shop as it comes: shop A in lower and in upper case among them
LegacyShopInputs == {Undefined, ShopA, ShopUpperA, ShopB, ShopEvil}

\* the queries a callback of the earlier routes may carry
LegacyCallbackQueries ==
  {FullQuery(shop, state) :
     shop \in {ShopA, ShopUpperA, ShopB}, state \in 1..MaxNonces}
    \cup {FullQuery(ShopEvil, 1), FullQuery(Undefined, 1),
          [FullQuery(ShopA, 1) EXCEPT !.code = ""],
          FullQuery(ShopA, 0)}

NextLegacy ==
  \/ \E shop \in LegacyShopInputs : GetAuth(shop)
  \/ \E query \in LegacyCallbackQueries : AuthCallback(query)
  \/ \E p \in pending, outcome \in ExchangeOutcomes : CallbackResume(p, outcome)
  \/ \E nonce \in DOMAIN timers : TimerFire(nonce)
  \/ \E nonce \in DOMAIN timers : TimePasses(nonce)

SpecLegacy == InitLegacy /\ [][NextLegacy]_vars

\* ------------------------------------------------------------------------
\* Bearer gate (src/src/middleware/auth.js and src/unnamed/part_000)
\* ------------------------------------------------------------------------

\* "Bearer "
BearerPrefix == <<"B","e","a","r","e","r"," ">>

\* the scheme not looked at
startsWithBearer_any(header) == TRUE

\* authHeader.startsWith('Bearer ')
startsWithBearer(header) ==
  /\ Len(header) >= Len(BearerPrefix)
  /\ SubSeq(header, 1, Len(BearerPrefix)) = BearerPrefix

\* authHeader.slice(7)
slice7(header) == SubSeq(header, 8, Len(header))

\* only an undefined secret taken as missing
secretMissing_undefinedOnly(expectedToken) == expectedToken = Undefined

\* !expectedToken
secretMissing(expectedToken) == FalsySeq(expectedToken)

\* the response of the gate, or status 0 when it calls next()
authMiddleware(v, e, authHeader) ==
  LET expectedToken == e.API_BEARER_TOKEN
  IN  IF secretMissing(expectedToken)
        THEN IF v = "current"
               THEN [status |-> 500, error |-> "Server configuration error"]
               ELSE [status |-> 401, error |-> "Unauthorized"]
      ELSE IF FalsySeq(authHeader)
        THEN [status |-> 401, error |-> "Unauthorized"]
      ELSE IF ~startsWithBearer(authHeader)
        THEN [status |-> 401, error |-> "Unauthorized"]
      ELSE IF slice7(authHeader) # expectedToken
        THEN [status |-> 401, error |-> "Unauthorized"]
      ELSE [status |-> 0, error |-> ""]

\* the values of the Authorization header the requests of the model carry:
\* none, the secret after "Bearer ", another token, an empty token, the secret
\* with no scheme, the secret after "bearer ", and the secret with a character
\* after it
AuthHeaders ==
  {Undefined,
   BearerPrefix \o EnvValue.API_BEARER_TOKEN,
   BearerPrefix \o <<"n","o">>,
   BearerPrefix,
   EnvValue.API_BEARER_TOKEN,
   <<"b","e","a","r","e","r"," ">> \o EnvValue.API_BEARER_TOKEN,
   BearerPrefix \o EnvValue.API_BEARER_TOKEN \o <<"x">>}

\* ------------------------------------------------------------------------
\* The limit parameter (src/src/routes/orders.js)
\* ------------------------------------------------------------------------

\* the JavaScript number NaN
NaN == [nan |-> TRUE, value |-> 0]

\* a JavaScript number that is an integer
Number(n) == [nan |-> FALSE, value |-> n]

DigitValue(c) ==
  CASE c = "0" -> 0 [] c = "1" -> 1 [] c = "2" -> 2 [] c = "3" -> 3
    [] c = "4" -> 4 [] c = "5" -> 5 [] c = "6" -> 6 [] c = "7" -> 7
    [] c = "8" -> 8 [] c = "9" -> 9

RECURSIVE DigitPrefix(_)
\* the longest prefix of s made of decimal digits
DigitPrefix(s) ==
  IF s # <<>> /\ Head(s) \in Digits
    THEN <<Head(s)>> \o DigitPrefix(Tail(s))
    ELSE <<>>

RECURSIVE DigitsValue(_)
\* the number a sequence of decimal digits writes
DigitsValue(ds) ==
  IF ds = <<>> THEN 0
  ELSE 10 * DigitsValue(SubSeq(ds, 1, Len(ds) - 1)) + DigitValue(ds[Len(ds)])

\* parseInt(limit) for a limit that is a string: leading white space, a sign,
\* then the longest run of decimal digits; NaN when there is no digit ("0x"
\* prefixes are not among the inputs of the model)
parseInt(limit) ==
  LET t == trimStart(limit)
      negative == t # <<>> /\ Head(t) = "-"
      signed == t # <<>> /\ Head(t) \in {"-", "+"}
      ds == DigitPrefix(IF signed THEN Tail(t) ELSE t)
  IN  IF ds = <<>> THEN NaN
      ELSE IF negative THEN Number(0 - DigitsValue(ds))
      ELSE Number(DigitsValue(ds))

Max(a, b) == IF a >= b THEN a ELSE b

Min(a, b) == IF a <= b THEN a ELSE b

\* parseInt(limit) || 10, where limit is 10 when the parameter is absent
limitOrDefault(limit) ==
  LET n == IF limit = Undefined THEN Number(10) ELSE parseInt(limit)
  IN  IF n.nan \/ n.value = 0 THEN 10 ELSE n.value

\* Math.min(Math.max(parseInt(limit) || 10, 1), 250)
forwardedLimit(limit) == Min(Max(limitOrDefault(limit), 1), 250)

\* ------------------------------------------------------------------------
\* GET /v1/orders and GET /v1/orders/:orderId (src/src/routes/orders.js)
\* ------------------------------------------------------------------------

\* `${host}/auth?shop=${normalizedShop}`, host being process.env.HOST || ''
authUrl_noHost(e, shop) == [host |-> "", path |-> "/auth", shop |-> shop]

\* `${process.env.HOST || ''}/auth?shop=${normalizedShop}`
authUrl(e, shop) ==
  [host |-> IF Falsy(e.HOST) THEN "" ELSE e.HOST, path |-> "/auth",
   shop |-> shop]

NoAuthUrl == [host |-> "", path |-> "", shop |-> Null]

\* the response of a handler that answers before its await
Answer(status, error, url) ==
  [status |-> status, error |-> error, auth_url |-> url, shop |-> Null,
   upstream |-> "none", limit |-> 0, orderStatus |-> ""]

\* the checks both orders handlers make on the shop: the response when one
\* fails, else status 0 and the normalized shop
resolveShop(e, file, shop) ==
  IF FalsySeq(shop)
    THEN Answer(400, "Missing required parameter: shop", NoAuthUrl)
  ELSE LET validation == ShopValidation[shop]
           normalizedShop == validation.normalized
       IN  IF ~validation.valid
             THEN Answer(400, "Invalid shop domain", NoAuthUrl)
           ELSE IF ~isShopAuthenticated(file, normalizedShop)
             THEN Answer(401, "Shop not installed",
                         authUrl(e, normalizedShop))
           ELSE [Answer(0, "", NoAuthUrl) EXCEPT !.shop = normalizedShop]

\* GET /v1/orders up to its await: the response when a check fails, else the
\* request sent to Shopify (orders.json with params limit and status)
ordersStart(e, file, req) ==
  LET r == resolveShop(e, file, req.shop)
  IN  IF r.status # 0 THEN r
      ELSE IF getShopToken(file, r.shop) = ""
        THEN Answer(401, "Token not found", authUrl(e, r.shop))
      ELSE [r EXCEPT !.upstream = "GET orders.json",
                     !.limit = forwardedLimit(req.limit),
                     !.orderStatus = IF req.status = Unset THEN "any"
                                                         ELSE req.status]

\* GET /v1/orders/:orderId up to its await
orderStart(e, file, req) ==
  LET r == resolveShop(e, file, req.shop)
  IN  IF r.status # 0 THEN r
      ELSE [r EXCEPT !.upstream = "GET orders/:orderId.json"]

\* the HTTP statuses with which Shopify may refuse a request (axios rejects
\* with error.response set)
UpstreamErrorStatuses == {401, 403, 404, 429}

\* what a GET sent to Shopify can come to
FetchOutcomes ==
  {[kind |-> "ok", status |-> 200]}
    \cup {[kind |-> "http_error", status |-> st] : st \in UpstreamErrorStatuses}
    \cup {[kind |-> "transport_error", status |-> 0]}

\* the body Shopify sent with an error status (error.response.data)
UpstreamBody(outcome) == <<"upstream body", outcome.status>>

NoBody == <<"", 0>>

\* GET /v1/orders after its await: the try's return and the catch
ordersFinish(e, shop, outcome) ==
  IF outcome.kind = "ok"
    THEN [status |-> 200, error |-> "", message |-> "",
          auth_url |-> NoAuthUrl, details |-> NoBody]
  ELSE IF outcome.kind = "http_error"
    THEN IF outcome.status = 401
           THEN [status |-> 401, error |-> "Invalid or expired token",
                 message |-> "", auth_url |-> authUrl(e, shop),
                 details |-> NoBody]
         ELSE IF outcome.status = 403
           THEN [status |-> 403, error |-> "Insufficient permissions",
                 message |-> "", auth_url |-> NoAuthUrl, details |-> NoBody]
         ELSE [status |-> outcome.status, error |-> "Shopify API error",
               message |-> "", auth_url |-> NoAuthUrl,
               details |-> UpstreamBody(outcome)]
  ELSE [status |-> 500, error |-> "Failed to fetch orders",
        message |-> "error.message", auth_url |-> NoAuthUrl,
        details |-> NoBody]

\* GET /v1/orders/:orderId after its await: the try's return and the catch
orderFinish(e, shop, outcome) ==
  IF outcome.kind = "ok"
    THEN [status |-> 200, error |-> "", message |-> "",
          auth_url |-> NoAuthUrl, details |-> NoBody]
  ELSE IF outcome.kind = "http_error"
    THEN IF outcome.status = 404
           THEN [status |-> 404, error |-> "Order not found",
                 message |-> "", auth_url |-> NoAuthUrl, details |-> NoBody]
         ELSE [status |-> outcome.status, error |-> "Shopify API error",
               message |-> "", auth_url |-> NoAuthUrl,
               details |-> UpstreamBody(outcome)]
  ELSE [status |-> 500, error |-> "Failed to fetch order",
        message |-> "error.message", auth_url |-> NoAuthUrl,
        details |-> NoBody]

\* the values of the limit query parameter the orders requests carry:
\* none, "9999", "0", "7", "-5", "abc" and ""
LimitInputs ==
  {Undefined, <<"9","9","9","9">>, <<"0">>, <<"7">>, <<"-","5">>,
   <<"a","b","c">>, <<>>}

\* the Authorization header that passes the gate when the secret is set
GoodHeader == BearerPrefix \o EnvValue.API_BEARER_TOKEN

\* the requests to GET /v1/orders: every header with every shop, and with the
\* good header and shop A every limit, with and without a status
OrdersRequests ==
  {[authorization |-> h, shop |-> shop, limit |-> Undefined,
    status |-> Unset] :
     h \in AuthHeaders, shop \in ShopInputs}
    \cup {[authorization |-> GoodHeader, shop |-> ShopA, limit |-> l,
           status |-> st] :
            l \in LimitInputs, st \in {Unset, "open"}}

\* the requests to GET /v1/orders/:orderId
OrderRequests ==
  {[authorization |-> h, shop |-> shop, orderId |-> "1001"] :
     h \in AuthHeaders, shop \in ShopInputs}

\* an identifier for a request about to wait for Shopify
FreeSlot ==
  CHOOSE i \in 1..(MaxPending + 1) :
    \A p \in pending : p.op # "callback" => p.id # i

\* a request under /v1 from its arrival to its first await, or to its
\* response when it answers before: the gate, then the handler of the route
\* when the gate calls next()
V1Request(op, req) ==
  LET gate == authMiddleware(variant, env, req.authorization)
      r == IF gate.status # 0
             THEN Answer(gate.status, gate.error, NoAuthUrl)
             ELSE IF op = "orders" THEN ordersStart(env, shopsFile, req)
             ELSE orderStart(env, shopsFile, req)
  IN  /\ r.upstream # "none" => Cardinality(pending) < MaxPending
      /\ pending' = IF r.upstream # "none"
                      THEN pending \cup
                             {[id |-> FreeSlot, op |-> op, shop |-> r.shop]}
                      ELSE pending
      /\ last' = [op |-> op, phase |-> "sync", req |-> req,
                  handler |-> gate.status = 0, status |-> r.status,
                  error |-> r.error, auth_url |-> r.auth_url,
                  shop |-> r.shop, upstream |-> r.upstream,
                  limit |-> r.limit, orderStatus |-> r.orderStatus,
                  changed |-> FALSE]
      /\ UNCHANGED <<env, variant, nonceStore, timers, nonceCount, shopsFile,
                     issued, consumed>>

GetOrders(req) == V1Request("orders", req)

GetOrder(req) == V1Request("order", req)

\* an orders handler from the return of its await to its response
V1Resume(p, outcome) ==
  LET r == IF p.op = "orders" THEN ordersFinish(env, p.shop, outcome)
           ELSE orderFinish(env, p.shop, outcome)
  IN  /\ p \in pending
      /\ pending' = pending \ {p}
      /\ last' = [op |-> p.op, phase |-> "resume", shop |-> p.shop,
                  outcome |-> outcome, status |-> r.status,
                  error |-> r.error, message |-> r.message,
                  auth_url |-> r.auth_url, details |-> r.details,
                  upstream |-> "none", changed |-> FALSE]
      /\ UNCHANGED <<env, variant, nonceStore, timers, nonceCount, shopsFile,
                     issued, consumed>>

\* the response held back while a token exchange is in flight
OrdersResume_afterExchange(p, outcome) ==
  /\ \A q \in pending : q.op # "callback"
  /\ p.op = "orders"
  /\ V1Resume(p, outcome)

OrdersResume(p, outcome) == p.op = "orders" /\ V1Resume(p, outcome)

OrderResume(p, outcome) == p.op = "order" /\ V1Resume(p, outcome)

\* the environments of the orders routes: the bearer secret unset, empty or
\* set, and HOST set or not
OrdersEnvs ==
  {[EnvValue EXCEPT !.API_BEARER_TOKEN = b, !.HOST = h] :
     b \in {Undefined, <<>>, EnvValue.API_BEARER_TOKEN},
     h \in {Unset, EnvValue.HOST}}

\* the token files the orders routes may find: none, one where shop A has
\* completed OAuth, and one that does not parse
OrdersFiles ==
  {[state |-> "missing", table |-> EmptyTable],
   writeShopsOk(putShop(EmptyTable, ShopA, "shpat_1")),
   [state |-> "malformed", table |-> EmptyTable]}

InitOrders ==
  /\ env \in OrdersEnvs
  /\ variant \in {"legacy", "current"}
  /\ nonceStore = NoNonces
  /\ timers = [n \in {} |-> "waiting"]
  /\ nonceCount = 0
  /\ shopsFile \in OrdersFiles
  /\ pending = {}
  /\ issued = [n \in {} |-> Null]
  /\ consumed = {}
  /\ last = [op |-> "none"]

NextOrders ==
  \/ \E req \in OrdersRequests : GetOrders(req)
  \/ \E req \in OrderRequests : GetOrder(req)
  \/ \E p \in pending, outcome \in FetchOutcomes : OrdersResume(p, outcome)
  \/ \E p \in pending, outcome \in FetchOutcomes : OrderResume(p, outcome)

SpecOrders == InitOrders /\ [][NextOrders]_vars

\* ------------------------------------------------------------------------
\* Properties of the OAuth flow (checked under Spec)
\* ------------------------------------------------------------------------

\* the last step was GET /auth/callback up to its await or early response
CallbackSync == last.op = "callback" /\ last.phase = "sync"

\* the last step was GET /auth/callback after its await
CallbackResumed == last.op = "callback" /\ last.phase = "resume"

\* the state parameter of the callback the last step belongs to
CallbackState == IF last.phase = "sync" THEN last.query.state ELSE last.state

\* the callback of the last step carried shop, code and state, its shop was a
\* valid domain and the OAuth configuration was complete: it got as far as
\* the HMAC check
ReachedHmacCheck ==
  /\ CallbackSync
  /\ ~missingCallbackParams(last.query)
  /\ isValidShopDomain(last.query.shop)
  /\ getOAuthConfigMissing(env) = {}

\* the callback of the last step carried a non-empty hmac that is not the
\* HMAC-SHA256, under the client secret, of its other parameters
BadHmac ==
  /\ CallbackSync
  /\ ~FalsyHmac(last.query.hmac)
  /\ last.query.hmac #
       createHmac(EnvValue.SHOPIFY_API_SECRET, sortedParams(last.query))

\* C1: when a callback is answered 403 (HMAC verification failed, state not
\* found or expired, shop mismatch) or 200, the nonce named by its state
\* parameter is not in the nonce table.
C1_NonceAbsentAfterCallback ==
  (last.op = "callback" /\ last.status \in {403, 200})
    => CallbackState \notin DOMAIN nonceStore

\* C2: once a callback with state n has passed the state and shop checks, no
\* later callback with state n reaches the token exchange, and every later
\* callback with state n that carries shop, code and a valid shop is answered
\* 403 (one that lacks them is answered 400 before the state is looked at).
C2_ConsumedNonceRejected ==
  (CallbackSync /\ last.replay)
    => /\ last.upstream = "none"
       /\ last.status \in {400, 403}
       /\ ReachedHmacCheck => last.status = 403

\* a callback replayed the state of a callback that went on to the exchange,
\* with the shop that callback had, and was answered 403
C2_Witness ==
  /\ CallbackSync
  /\ last.replay
  /\ ReachedHmacCheck
  /\ last.query.state \in DOMAIN issued
  /\ normalizeShopDomain(last.query.shop) = issued[last.query.state]
  /\ last.status = 403
  /\ last.error = "Invalid state parameter"

\* C3: a callback whose non-empty hmac is not the HMAC-SHA256 of its other
\* parameters under the client secret sends no POST to the token endpoint and
\* leaves the token table as it is; when it carries shop, code, state and a
\* valid shop it is answered 403 "HMAC verification failed".
C3_BadHmacRejected ==
  BadHmac
    => /\ last.upstream = "none"
       /\ ~last.changed
       /\ last.status # 0
       /\ ReachedHmacCheck
            => last.status = 403 /\ last.error = "HMAC verification failed"

\* a callback with a bad hmac, a live state and the shop the state was issued
\* for was answered 403
C3_Witness ==
  /\ BadHmac
  /\ ReachedHmacCheck
  /\ last.live
  /\ issued[last.query.state] = normalizeShopDomain(last.query.shop)
  /\ last.status = 403

\* C4: every domain with a record in the token table is the domain some nonce
\* was issued for by GET /auth, and a callback found that nonce live; a callback
\* goes on to the exchange only with a live state issued for its normalized
\* shop; a callback whose live state was issued for another shop is answered
\* 403 "Shop mismatch", sends no POST and saves nothing.
C4_TokensComeFromMatchingNonce ==
  /\ \A d \in getAllShops(shopsFile) :
       \E n \in consumed : n \in DOMAIN issued /\ issued[n] = d
  /\ (CallbackSync /\ last.upstream # "none")
       => /\ last.live
          /\ issued[last.query.state] = normalizeShopDomain(last.query.shop)
          /\ last.shop = issued[last.query.state]
  /\ (CallbackResumed /\ last.changed /\ last.status = 200)
       => /\ last.state \in consumed
          /\ issued[last.state] = last.shop
          /\ last.shop \in getAllShops(shopsFile)
  /\ (ReachedHmacCheck /\ ~BadHmac /\ last.live
        /\ issued[last.query.state] # normalizeShopDomain(last.query.shop))
       => /\ last.status = 403
          /\ last.error = "Shop mismatch"
          /\ last.upstream = "none"
          /\ ~last.changed

\* a callback stored a token for the shop its nonce was issued for
C4_Witness ==
  /\ CallbackResumed
  /\ last.status = 200
  /\ last.changed
  /\ getShopToken(shopsFile, last.shop) = last.outcome.access_token

\* C5: when the exchange is answered 2xx with no access_token in the body,
\* the callback is answered 500 and its step leaves the token file as it was.
C5_NoTokenNoRecord ==
  (CallbackResumed /\ last.outcome.kind = "ok"
     /\ last.outcome.access_token = "")
    => last.status = 500 /\ ~last.changed

\* an exchange with no access_token was answered 500 for a shop with no record
C5_Witness ==
  /\ CallbackResumed
  /\ last.outcome.kind = "ok"
  /\ last.outcome.access_token = ""
  /\ last.status = 500
  /\ ~isShopAuthenticated(shopsFile, last.shop)

\* ------------------------------------------------------------------------
\* Properties of the routes under /v1 (checked under SpecOrders)
\* ------------------------------------------------------------------------

\* the last step was a request under /v1 up to its await or early response
V1Sync == last.op \in {"orders", "order"} /\ last.phase = "sync"

\* the last step was the rest of an orders handler after its await
V1Resumed == last.op \in {"orders", "order"} /\ last.phase = "resume"

\* API_BEARER_TOKEN is set to a non-empty value
SecretConfigured ==
  env.API_BEARER_TOKEN # Undefined /\ env.API_BEARER_TOKEN # <<>>

\* C6: the handler of a request under /v1 runs if and only if the secret is
\* configured and the Authorization header is exactly "Bearer " followed by
\* the secret; with the secret configured, any other header (none, no
\* "Bearer " scheme, another token) is answered 401 and nothing is sent to
\* Shopify.
C6_GateIff ==
  V1Sync
    => /\ last.handler
            <=> /\ SecretConfigured
                /\ last.req.authorization
                     = BearerPrefix \o env.API_BEARER_TOKEN
       /\ (SecretConfigured /\ ~last.handler)
            => /\ last.status = 401
               /\ last.error = "Unauthorized"
               /\ last.upstream = "none"

\* a request with the exact header passed the gate and its handler went on to
\* Shopify
C6_Witness ==
  /\ V1Sync
  /\ SecretConfigured
  /\ last.req.authorization = BearerPrefix \o env.API_BEARER_TOKEN
  /\ last.handler
  /\ last.upstream # "none"

\* C7: when API_BEARER_TOKEN is unset or empty, every request under /v1 is
\* answered 401 (gate of src/src/middleware/auth.js) or 500 (gate of
\* src/unnamed/part_000) whatever its header, its handler does not run and no
\* request to Shopify is pending.
C7_GateFailsClosed ==
  ~SecretConfigured
    => /\ pending = {}
       /\ V1Sync
            => /\ ~last.handler
               /\ last.upstream = "none"
               /\ last.status = IF variant = "current" THEN 500 ELSE 401

\* with an empty secret, a request with the header "Bearer " and an empty
\* token, for a shop that has a token, was refused
C7_Witness ==
  /\ V1Sync
  /\ env.API_BEARER_TOKEN = <<>>
  /\ last.req.authorization = BearerPrefix
  /\ last.req.shop = ShopA
  /\ isShopAuthenticated(shopsFile, ShopA)
  /\ last.status \in {401, 500}
  /\ ~last.handler

\* the handler of GET /v1/orders ran in the last step
OrdersHandlerRan == V1Sync /\ last.op = "orders" /\ last.handler

\* C8: GET /v1/orders with no shop is answered 400; with a valid shop that has
\* no token it is answered 401 with auth_url <HOST>/auth?shop=<normalized
\* shop>; in both cases nothing is sent to Shopify.
C8_ShopRequired ==
  OrdersHandlerRan
    => /\ (last.req.shop = Undefined \/ last.req.shop = <<>>)
            => last.status = 400 /\ last.upstream = "none"
       /\ (/\ last.req.shop # Undefined
           /\ isValidShopDomain(last.req.shop)
           /\ getShopToken(shopsFile, normalizeShopDomain(last.req.shop)) = "")
            => /\ last.status = 401
               /\ last.auth_url
                    = [host |-> IF env.HOST = Unset THEN "" ELSE env.HOST,
                       path |-> "/auth",
                       shop |-> normalizeShopDomain(last.req.shop)]
               /\ last.upstream = "none"

\* GET /v1/orders?shop=https://A.myshopify.com/admin with no token for the
\* shop was answered 401 with the auth_url of the normalized shop
C8_Witness ==
  /\ OrdersHandlerRan
  /\ last.req.shop = ShopUrlA
  /\ env.HOST = EnvValue.HOST
  /\ last.status = 401
  /\ last.auth_url = [host |-> EnvValue.HOST, path |-> "/auth", shop |-> ShopA]

\* C9: on both GET /v1/orders and GET /v1/orders/:orderId, an upstream 401 is
\* answered 401 "Invalid or expired token" with an auth_url, an upstream 403
\* is answered 403 "Insufficient permissions", any other upstream status is
\* passed through (with the upstream body, but for the 404 "Order not found"
\* of the single-order route), and a transport failure is answered 500 with
\* the error message.
C9_UpstreamErrorMapping ==
  V1Resumed
    => /\ (last.outcome.kind = "http_error" /\ last.outcome.status = 401)
            => /\ last.status = 401
               /\ last.error = "Invalid or expired token"
               /\ last.auth_url = authUrl(env, last.shop)
       /\ (last.outcome.kind = "http_error" /\ last.outcome.status = 403)
            => /\ last.status = 403
               /\ last.error = "Insufficient permissions"
       /\ (last.outcome.kind = "http_error"
             /\ last.outcome.status \notin {401, 403})
            => /\ last.status = last.outcome.status
               /\ \/ last.details = UpstreamBody(last.outcome)
                  \/ last.op = "order" /\ last.outcome.status = 404
       /\ last.outcome.kind = "transport_error"
            => last.status = 500 /\ last.message # ""

\* ------------------------------------------------------------------------
\* The limit forwarded to Shopify, as a function of the limit query value
\* ------------------------------------------------------------------------

\* the integers whose decimal text is tried as limit: -MaxLimit..MaxLimit
MaxLimit == 300

\* the decimal digit of d in 0..9
DigitChar(d) == <<"0","1","2","3","4","5","6","7","8","9">>[d + 1]

RECURSIVE Unsigned(_)
\* the decimal text of n >= 0
Unsigned(n) ==
  IF n < 10 THEN <<DigitChar(n)>>
  ELSE Append(Unsigned(n \div 10), DigitChar(n % 10))

\* the text of the integer n in a query string (?limit=n)
Numeral(n) == IF n < 0 THEN <<"-">> \o Unsigned(0 - n) ELSE Unsigned(n)

\* the integers tried as limit
LimitIntegers == ((0 - MaxLimit)..MaxLimit) \cup {9999}

\* a request GET /v1/orders?limit=n has arrived
InitLimit ==
  /\ env = EnvValue
  /\ variant = "current"
  /\ nonceStore = NoNonces
  /\ timers = [n \in {} |-> "waiting"]
  /\ nonceCount = 0
  /\ shopsFile = writeShopsOk(putShop(EmptyTable, ShopA, "shpat_1"))
  /\ pending = {}
  /\ issued = [n \in {} |-> Null]
  /\ consumed = {}
  /\ \E n \in LimitIntegers :
       last = [op |-> "limit", phase |-> "arrived", n |-> n,
               limit |-> Numeral(n)]

\* params.limit of the request to Shopify is computed
ForwardLimit ==
  /\ last.op = "limit"
  /\ last.phase = "arrived"
  /\ last' = [last EXCEPT !.phase = "forwarded"]
               @@ [forwarded |-> forwardedLimit(last.limit)]
  /\ UNCHANGED <<env, variant, nonceStore, timers, nonceCount, shopsFile,
                 pending, issued, consumed>>

NextLimit == ForwardLimit

SpecLimit == InitLimit /\ [][NextLimit]_vars

\* n clamped to 1..250
Clamp(n) == IF n < 1 THEN 1 ELSE IF n > 250 THEN 250 ELSE n

\* C10: for every integer n given as limit, the limit forwarded to Shopify is
\* n clamped to 1..250: 1 for n below 1, 250 for n above 250.
C10_LimitClamped ==
  (last.op = "limit" /\ last.phase = "forwarded")
    => last.forwarded = Clamp(last.n)

\* ------------------------------------------------------------------------
\* Defaults of GET /v1/orders (checked under SpecOrders)
\* ------------------------------------------------------------------------

\* the last step was a GET /v1/orders that went on to Shopify
OrdersForwarded == OrdersHandlerRan /\ last.upstream = "GET orders.json"

\* C11: a GET /v1/orders without limit forwards limit 50 to Shopify, never
\* more than 250, and one without status forwards status "any".
C11_Defaults ==
  OrdersForwarded
    => /\ last.req.limit = Undefined => last.limit = 50
       /\ last.limit <= 250
       /\ last.req.status = Unset => last.orderStatus = "any"

\* ------------------------------------------------------------------------
\* The token store by itself: saveShopToken and removeShop called in any order
\* ------------------------------------------------------------------------

\* the domains the store is called with
StoreDomains == {ShopA, ShopB}

InitStore ==
  /\ env = EnvValue
  /\ variant = "current"
  /\ nonceStore = NoNonces
  /\ timers = [n \in {} |-> "waiting"]
  /\ nonceCount = 0
  /\ shopsFile = [state |-> "missing", table |-> EmptyTable]
  /\ pending = {}
  /\ issued = [n \in {} |-> Null]
  /\ consumed = {}
  /\ last = [op |-> "none"]

\* saveShopToken(d, t)
StoreSave(d, t) ==
  /\ \E r \in saveShopToken(shopsFile, d, t) :
       /\ shopsFile' = r.file
       /\ last' = [op |-> "save", shop |-> d, token |-> t,
                   before |-> getShopToken(shopsFile, d),
                   returned |-> r.saved]
  /\ UNCHANGED <<env, variant, nonceStore, timers, nonceCount, pending,
                 issued, consumed>>

\* removeShop(d)
StoreRemove(d) ==
  /\ \E r \in removeShop(shopsFile, d) :
       /\ shopsFile' = r.file
       /\ last' = [op |-> "remove", shop |-> d, token |-> "",
                   before |-> getShopToken(shopsFile, d),
                   returned |-> r.removed]
  /\ UNCHANGED <<env, variant, nonceStore, timers, nonceCount, pending,
                 issued, consumed>>

NextStore ==
  \/ \E d \in StoreDomains, t \in Tokens : StoreSave(d, t)
  \/ \E d \in StoreDomains : StoreRemove(d)

SpecStore == InitStore /\ [][NextStore]_vars

\* the write of the last store call did not fail: a save returned true, a
\* remove returned true or found no record to remove
NoWriteFailure ==
  \/ last.op = "save" /\ last.returned
  \/ last.op = "remove" /\ (last.returned \/ last.before = "")

\* C12: with no write failure, after save(d, t) get(d) is t, whether or not d
\* had another token before; after remove(d) get(d) is null and
\* isAuthenticated(d) is false; and always isAuthenticated(d) is get(d) # null.
C12_StoreRoundTrip ==
  /\ (last.op = "save" /\ NoWriteFailure)
       => getShopToken(shopsFile, last.shop) = last.token
  /\ (last.op = "remove" /\ NoWriteFailure)
       => /\ getShopToken(shopsFile, last.shop) = ""
          /\ ~isShopAuthenticated(shopsFile, last.shop)
  /\ \A d \in StoreDomains :
       isShopAuthenticated(shopsFile, d) <=> getShopToken(shopsFile, d) # ""

\* a save overwrote another token of the same domain
C12_Witness ==
  /\ last.op = "save"
  /\ last.returned
  /\ last.before # ""
  /\ last.before # last.token
  /\ getShopToken(shopsFile, last.shop) = last.token

\* ------------------------------------------------------------------------
\* The token table under the OAuth flow (checked under Spec)
\* ------------------------------------------------------------------------

\* the keys of the token table that name the domain d
RecordsOf(d) ==
  {k \in getAllShops(shopsFile) : normalizeShopDomain(k) = d}

MaxShopLen == 3

\* the characters of the middle part: a letter, a hyphen, a space, a slash
ShopAlphabet == {"a", "-", " ", "/"}

\* what a shop string tried starts with: nothing, a scheme in either case, a
\* space
ShopPrefixes ==
  {<<>>, HttpScheme, <<"H","T","T","P","S",":","/","/">>, <<" ">>}

\* what a shop string tried ends with: nothing, the suffix, the suffix in
\* mixed case, the suffix and a space, the suffix and a path after a space
ShopSuffixes ==
  {<<>>, MyshopifySuffix,
   <<".","M","y","S","h","o","p","i","f","y",".","c","o","m">>,
   MyshopifySuffix \o <<" ">>, MyshopifySuffix \o <<" ","/","x">>}

\* the shop strings tried
ShopStrings ==
  {pre \o mid \o suf :
     pre \in ShopPrefixes,
     mid \in UNION {[1..n -> ShopAlphabet] : n \in 0..MaxShopLen},
     suf \in ShopSuffixes}

\* a value is about to be handed to the validator
InitValidator ==
  /\ env = EnvValue
  /\ variant = "current"
  /\ nonceStore = NoNonces
  /\ timers = [n \in {} |-> "waiting"]
  /\ nonceCount = 0
  /\ shopsFile = [state |-> "missing", table |-> EmptyTable]
  /\ pending = {}
  /\ issued = [n \in {} |-> Null]
  /\ consumed = {}
  /\ \E s \in ShopStrings \cup {Undefined, Null} :
       last = [op |-> "validate", phase |-> "called", input |-> s]

\* normalizeShopDomain(s), normalizeShopDomain of that, isValidShopDomain(s)
\* and validateAndNormalizeShop(s) return
Validate ==
  /\ last.op = "validate"
  /\ last.phase = "called"
  /\ last' = [op |-> "validate", phase |-> "returned", input |-> last.input,
              normalized |-> normalizeShopDomain(last.input),
              again |-> normalizeShopDomain(normalizeShopDomain(last.input)),
              isValid |-> isValidShopDomain(last.input),
              validation |-> validateAndNormalizeShop(last.input)]
  /\ UNCHANGED <<env, variant, nonceStore, timers, nonceCount, shopsFile,
                 pending, issued, consumed>>

NextValidator == Validate

SpecValidator == InitValidator /\ [][NextValidator]_vars

\* the validator has returned for a string
ValidatedString ==
  last.op = "validate" /\ last.phase = "returned" /\ IsString(last.input)

\* C14: for every string s, normalizeShopDomain(normalizeShopDomain(s)) is
\* normalizeShopDomain(s).
C14_NormalizeIdempotent ==
  ValidatedString => last.again = last.normalized

\* the string obtained from s by stripping a leading http:// or https://,
\* dropping everything from the first "/" and lowercasing
StrippedLowercased(s) == toLowerCase(BeforeSlash(StripScheme(s)))

\* s matches ^[a-z0-9]([a-z0-9-]*[a-z0-9])?\.myshopify\.com$
CanonicalDomain(s) ==
  /\ Len(s) > Len(MyshopifySuffix)
  /\ SubSeq(s, Len(s) - Len(MyshopifySuffix) + 1, Len(s)) = MyshopifySuffix
  /\ LET name == SubSeq(s, 1, Len(s) - Len(MyshopifySuffix))
     IN  /\ name[1] \in LowerAlnum
         /\ name[Len(name)] \in LowerAlnum
         /\ \A i \in DOMAIN name : name[i] \in LowerAlnum \cup {"-"}

\* C15: validateAndNormalizeShop(s) is valid exactly when s, with a leading
\* scheme stripped, cut at the first "/" and lowercased, matches
\* ^[a-z0-9]([a-z0-9-]*[a-z0-9])?\.myshopify\.com$, and normalized is then that
\* string; an empty or non-string input is invalid with an error other than
\* the one for a malformed domain.
C15_ValidExactlyWhenCanonical ==
  (last.op = "validate" /\ last.phase = "returned")
    => /\ (IsString(last.input) /\ last.input # <<>>)
            => /\ last.validation.valid
                    <=> CanonicalDomain(StrippedLowercased(last.input))
               /\ last.validation.valid
                    => last.validation.normalized
                         = StrippedLowercased(last.input)
       /\ (~IsString(last.input) \/ last.input = <<>>)
            => /\ ~last.validation.valid
               /\ last.validation.error = EmptyShopError
               /\ EmptyShopError # MalformedShopError

\* C15 read with surrounding whitespace trimmed first: valid exactly when the
\* trimmed, stripped, cut and lowercased string is a canonical domain
C15_TrimmedReading ==
  ValidatedString
    => (last.validation.valid
          <=> CanonicalDomain(StrippedLowercased(trim(last.input))))

\* ------------------------------------------------------------------------
\* Expiry of nonces (checked under Spec)
\* ------------------------------------------------------------------------

\* C16: a callback whose state was issued by GET /auth more than ten minutes
\* before it arrives sends no POST to the token endpoint and, when it carries
\* shop, code, state and a valid shop, is answered 403, whether or not the
\* timer set for the nonce has run yet.
C16_NonceExpiresAfterTenMinutes ==
  (CallbackSync /\ last.overdue)
    => /\ last.upstream = "none"
       /\ ReachedHmacCheck => last.status = 403

\* ------------------------------------------------------------------------
\* Incomplete OAuth configuration (checked under Spec)
\* ------------------------------------------------------------------------

\* one of the client id, client secret, scopes and host is not set
ConfigIncomplete ==
  \/ env.SHOPIFY_API_KEY = Unset
  \/ env.SHOPIFY_API_SECRET = Unset
  \/ env.SCOPES = Unset
  \/ env.HOST = Unset

\* C17: with one of the client id, client secret, scopes and host unset, a
\* GET /auth with a valid shop and a GET /auth/callback with shop, code, state
\* and a valid shop are answered 500 "Server configuration error"; no nonce is
\* created or deleted, the answer does not depend on the state or the hmac, no
\* exchange is sent and the token file is not written.
C17_ConfigCheckedFirst ==
  ConfigIncomplete
    => /\ (last.op = "auth" /\ last.shop # Undefined
             /\ isValidShopDomain(last.shop))
            => /\ last.status = 500
               /\ last.error = "Server configuration error"
               /\ last.location = NoUrl
       /\ (CallbackSync /\ ~missingCallbackParams(last.query)
             /\ isValidShopDomain(last.query.shop))
            => /\ last.status = 500
               /\ last.error = "Server configuration error"
               /\ last.upstream = "none"
       /\ nonceStore = NoNonces
       /\ nonceCount = 0
       /\ consumed = {}
       /\ pending = {}
       /\ shopsFile = [state |-> "missing", table |-> EmptyTable]

\* with only the client secret unset, a callback with every parameter, a
\* valid shop and an hmac that does not verify was answered 500
C17_Witness ==
  /\ env = [EnvValue EXCEPT !.SHOPIFY_API_SECRET = Unset]
  /\ CallbackSync
  /\ ~missingCallbackParams(last.query)
  /\ isValidShopDomain(last.query.shop)
  /\ ~FalsyHmac(last.query.hmac)
  /\ last.status = 500

\* ------------------------------------------------------------------------
\* The keys of the token table (checked under SpecLegacy and Spec)
\* ------------------------------------------------------------------------

\* C18: every key of the token table is a lowercase domain matching
\* ^[a-z0-9]([a-z0-9-]*[a-z0-9])?\.myshopify\.com$, and after a callback that
\* succeeded, GET /v1/orders with the callback's shop string finds the record
\* under the normalized domain.
C18_KeysCanonical ==
  /\ \A k \in getAllShops(shopsFile) : CanonicalDomain(k)
  /\ (CallbackResumed /\ last.status = 200)
       => isShopAuthenticated(shopsFile, normalizeShopDomain(last.shop))

\* ------------------------------------------------------------------------
\* Route mounting (src/src/server.js): which handlers a request runs through
\* ------------------------------------------------------------------------

\* path segments, as character sequences
SegHealth == <<"h","e","a","l","t","h">>

SegAuth == <<"a","u","t","h">>

SegCallback == <<"c","a","l","l","b","a","c","k">>

SegV1 == <<"v","1">>

SegV1Upper == <<"V","1">>

SegV1x == <<"v","1","x">>

SegOrders == <<"o","r","d","e","r","s">>

SegOrderId == <<"1","0","0","1">>

\* authMiddleware mounted on every path, ahead of the other layers
ServerLayers_gateFirst(server) ==
  << [kind |-> "use", path |-> <<>>, handler |-> "authMiddleware"],
     [kind |-> "get", path |-> <<SegHealth>>, handler |-> "health"],
     [kind |-> "use", path |-> <<SegAuth>>, handler |-> "authRouter"],
     [kind |-> "use", path |-> <<SegV1, SegOrders>>,
      handler |-> "ordersRouter"] >>

\* the layers of the app in the order they are registered: the first server
\* (no OAuth routes) and the second
ServerLayers(server) ==
  IF server = "first"
    THEN << [kind |-> "get", path |-> <<SegHealth>>, handler |-> "health"],
            [kind |-> "use", path |-> <<SegV1>>, handler |-> "authMiddleware"],
            [kind |-> "use", path |-> <<SegV1, SegOrders>>,
             handler |-> "ordersRouter"] >>
    ELSE << [kind |-> "get", path |-> <<>>, handler |-> "root"],
            [kind |-> "get", path |-> <<SegHealth>>, handler |-> "health"],
            [kind |-> "use", path |-> <<SegAuth>>, handler |-> "authRouter"],
            [kind |-> "use", path |-> <<SegV1>>, handler |-> "authMiddleware"],
            [kind |-> "use", path |-> <<SegV1, SegOrders>>,
             handler |-> "ordersRouter"] >>

\* Express compares paths without regard to case
lowerPath(path) == [i \in DOMAIN path |-> toLowerCase(path[i])]

\* app.get(path) matches the whole path of a GET; app.use(path) matches every
\* method and every path that starts with its segments
layerMatches(layer, method, path) ==
  IF layer.kind = "get"
    THEN method = "GET" /\ lowerPath(path) = layer.path
    ELSE /\ Len(path) >= Len(layer.path)
         /\ SubSeq(lowerPath(path), 1, Len(layer.path)) = layer.path

\* the route of a router that matches the rest of the path, or "" when none
\* does and the router calls next()
routerRoute(handler, method, rest) ==
  IF method # "GET" THEN ""
  ELSE IF handler = "authRouter"
    THEN IF rest = <<>> THEN "GET /auth"
         ELSE IF lowerPath(rest) = <<SegCallback>> THEN "GET /auth/callback"
         ELSE ""
  ELSE IF rest = <<>> THEN "GET /v1/orders"
       ELSE IF Len(rest) = 1 THEN "GET /v1/orders/:orderId"
       ELSE ""

RECURSIVE dispatch(_, _, _, _, _, _)
\* the layers from the i-th on handle the request: the handler that answers
\* it, whether authMiddleware ran on the way, and the status when the answer
\* is that of the app itself (health, gate, no route)
dispatch(layers, i, v, e, req, gated) ==
  IF i > Len(layers)
    THEN [reached |-> "none", gated |-> gated, status |-> 404]
  ELSE IF ~layerMatches(layers[i], req.method, req.path)
    THEN dispatch(layers, i + 1, v, e, req, gated)
  ELSE IF layers[i].handler \in {"health", "root"}
    THEN [reached |-> layers[i].handler, gated |-> gated, status |-> 200]
  ELSE IF layers[i].handler = "authMiddleware"
    THEN LET gate == authMiddleware(v, e, req.authorization)
         IN  IF gate.status # 0
               THEN [reached |-> "authMiddleware", gated |-> TRUE,
                     status |-> gate.status]
               ELSE dispatch(layers, i + 1, v, e, req, TRUE)
  ELSE LET rest == SubSeq(req.path, Len(layers[i].path) + 1, Len(req.path))
           route == routerRoute(layers[i].handler, req.method, rest)
       IN  IF route = "" THEN dispatch(layers, i + 1, v, e, req, gated)
           ELSE [reached |-> route, gated |-> gated, status |-> 0]

\* the paths requested
RequestPaths ==
  {<<>>, <<SegHealth>>, <<SegAuth>>, <<SegAuth, SegCallback>>,
   <<SegAuth, SegOrders>>, <<SegV1>>, <<SegV1, SegOrders>>,
   <<SegV1, SegOrders, SegOrderId>>, <<SegV1, SegOrders, SegOrderId, SegAuth>>,
   <<SegV1, SegHealth>>, <<SegV1Upper, SegOrders>>, <<SegV1x, SegOrders>>,
   <<SegOrders>>}

\* no configuration value is set
NoEnv ==
  [SHOPIFY_API_KEY |-> Unset, SHOPIFY_API_SECRET |-> Unset, SCOPES |-> Unset,
   HOST |-> Unset, API_BEARER_TOKEN |-> Undefined]

\* a request has arrived at one of the two servers
InitServer ==
  /\ env \in OrdersEnvs \cup {NoEnv}
  /\ variant \in {"legacy", "current"}
  /\ nonceStore = NoNonces
  /\ timers = [n \in {} |-> "waiting"]
  /\ nonceCount = 0
  /\ shopsFile = [state |-> "missing", table |-> EmptyTable]
  /\ pending = {}
  /\ issued = [n \in {} |-> Null]
  /\ consumed = {}
  /\ \E server \in {"first", "second"}, method \in {"GET", "POST"},
        path \in RequestPaths, h \in {Undefined, GoodHeader} :
       last = [op |-> "request", phase |-> "arrived", server |-> server,
               req |-> [method |-> method, path |-> path,
                        authorization |-> h]]

\* the app hands the request to its layers
Dispatch ==
  /\ last.op = "request"
  /\ last.phase = "arrived"
  /\ LET r == dispatch(ServerLayers(last.server), 1, variant, env, last.req,
                       FALSE)
     IN  last' = [op |-> "request", phase |-> "routed",
                  server |-> last.server, req |-> last.req,
                  reached |-> r.reached, gated |-> r.gated,
                  status |-> r.status]
  /\ UNCHANGED <<env, variant, nonceStore, timers, nonceCount, shopsFile,
                 pending, issued, consumed>>

NextServer == Dispatch

SpecServer == InitServer /\ [][NextServer]_vars

\* the request of the last step has been routed
Routed == last.op = "request" /\ last.phase = "routed"

\* the path of the request is /v1 or below it
UnderV1 ==
  /\ Len(last.req.path) >= 1
  /\ last.req.path[1] \in {SegV1, SegV1Upper}

\* C19: authMiddleware runs on a request exactly when its path is under /v1;
\* GET /health is answered 200 without it, whatever is configured; on the
\* server that mounts the OAuth router, GET /auth and GET /auth/callback reach
\* their handlers without it, with or without an Authorization header.
C19_GateOnlyUnderV1 ==
  Routed
    => /\ last.gated <=> UnderV1
       /\ (last.req.method = "GET" /\ last.req.path = <<SegHealth>>)
            => last.reached = "health" /\ last.status = 200
       /\ (last.req.method = "GET" /\ last.server = "second"
             /\ last.req.path = <<SegAuth>>)
            => last.reached = "GET /auth"
       /\ (last.req.method = "GET" /\ last.server = "second"
             /\ last.req.path = <<SegAuth, SegCallback>>)
            => last.reached = "GET /auth/callback"

\* with nothing configured, GET /auth/callback without an Authorization
\* header reached its handler and the gate did not run
C19_Witness ==
  /\ Routed
  /\ env = NoEnv
  /\ last.server = "second"
  /\ last.req = [method |-> "GET", path |-> <<SegAuth, SegCallback>>,
                 authorization |-> Undefined]
  /\ last.reached = "GET /auth/callback"
  /\ ~last.gated

\* ------------------------------------------------------------------------
\* Concurrent OAuth attempts for one domain (checked under Spec)
\* ------------------------------------------------------------------------

\* C20: every GET /auth that redirects creates a nonce of its own, never a
\* nonce used before or one bound to another attempt, and the nonce stays
\* bound to the shop of its attempt until its timer runs; when two callbacks for
\* the same domain are in flight together both can be answered 200, and after
\* each save the domain has exactly one record, holding the token of the
\* callback that saved last.
C20_LastWriterWins ==
  /\ (last.op = "auth" /\ last.status = 302)
       => /\ last.location.state \notin consumed
          /\ last.location.state \in DOMAIN timers
               => /\ last.location.state \in DOMAIN nonceStore
                  /\ nonceStore[last.location.state].shop
                       = last.location.host
  /\ \A n \in DOMAIN nonceStore : nonceStore[n].shop = issued[n]
  /\ Cardinality(DOMAIN issued) = nonceCount
  /\ (CallbackResumed /\ last.status = 200)
       => /\ getShopToken(shopsFile, last.shop) = last.outcome.access_token
          /\ RecordsOf(last.shop) = {last.shop}

\* two callbacks for shop A were in flight together: the one answered last
\* found no token when it started, found the other's token when it saved, and
\* its own token is the one stored; both nonces were used
C20_Witness ==
  /\ CallbackResumed
  /\ last.status = 200
  /\ last.seen = ""
  /\ last.before # ""
  /\ last.before # last.outcome.access_token
  /\ getShopToken(shopsFile, last.shop) = last.outcome.access_token
  /\ getAllShops(shopsFile) = {last.shop}
  /\ consumed = {1, 2}
  /\ issued[1] = issued[2]

\* ------------------------------------------------------------------------
\* The effect of GET /auth (checked under Spec)
\* ------------------------------------------------------------------------

\* the step is a GET /auth (a step that leaves a new "auth" event in last)
AuthStep == last' # last /\ last'.op = "auth"

\* the step adds to the nonce table one entry, under a key that was not in
\* it, bound to the normalized shop of the request, sets one timer for that
\* key, and redirects to the authorize URL of that shop with that key as state
AddsOneNonce ==
  \E n \in (DOMAIN nonceStore') \ (DOMAIN nonceStore) :
    /\ DOMAIN nonceStore' = DOMAIN nonceStore \cup {n}
    /\ \A m \in DOMAIN nonceStore : nonceStore'[m] = nonceStore[m]
    /\ nonceStore'[n].shop = normalizeShopDomain(last'.shop)
    /\ n \notin DOMAIN timers
    /\ DOMAIN timers' = DOMAIN timers \cup {n}
    /\ \A m \in DOMAIN timers : timers'[m] = timers[m]
    /\ timers'[n] = "waiting"
    /\ last'.location.host = normalizeShopDomain(last'.shop)
    /\ last'.location.path = "/admin/oauth/authorize"
    /\ last'.location.state = n

SpecFair ==
  /\ Spec
  /\ \A n \in 1..MaxNonces : WF_vars(TimePasses(n))
  /\ \A n \in 1..MaxNonces : WF_vars(TimerFire(n))

\* the step is the run of a timer callback: a timer leaves the set of timers
TimerStep == DOMAIN timers' # DOMAIN timers /\ DOMAIN timers' \subseteq DOMAIN timers

\* C22: every nonce in the nonce table is eventually out of it, removed by a
\* callback or by its timer; and the run of a timer removes from the nonce
\* table at most the nonce it was set for: nothing when a callback has removed
\* that nonce already, and never another nonce.
C22_NoncesEventuallyRemoved ==
  /\ \A n \in 1..MaxNonces :
       (n \in DOMAIN nonceStore) ~> (n \notin DOMAIN nonceStore)
  /\ [][TimerStep
          => \E n \in DOMAIN timers \ DOMAIN timers' :
               /\ DOMAIN timers' = DOMAIN timers \ {n}
               /\ DOMAIN nonceStore' = DOMAIN nonceStore \ {n}
               /\ \A m \in DOMAIN nonceStore' : nonceStore'[m] = nonceStore[m]
               /\ n \in consumed => nonceStore' = nonceStore]_vars

\* nonce 1 was consumed by a callback and its timer ran afterwards; nonce 2
\* was never consumed and its timer removed it; the table is empty
C22_Witness ==
  /\ 1 \in consumed
  /\ 2 \in DOMAIN issued
  /\ 2 \notin consumed
  /\ DOMAIN timers = {}
  /\ DOMAIN nonceStore = {}

\* ------------------------------------------------------------------------
\* Failures of the token file (checked under Spec)
\* ------------------------------------------------------------------------

\* the exchange returned an access_token and the token file does not hold it
\* for the shop of the callback: the write of saveShopToken failed
SaveFailed ==
  /\ CallbackResumed
  /\ last.outcome.kind = "ok"
  /\ last.outcome.access_token # ""
  /\ \/ shopsFile.state # "ok"
     \/ getShopToken(shopsFile, last.shop) # last.outcome.access_token

\* C23: when the token file cannot be read (missing, unreadable, malformed)
\* getShopToken answers null, isShopAuthenticated false and getAllShops the
\* empty list, for every domain; and a callback whose save failed answers 500.
C23_StoreFailures ==
  /\ shopsFile.state # "ok"
       => /\ getAllShops(shopsFile) = {}
          /\ \A d \in StoreDomains :
               /\ getShopToken(shopsFile, d) = ""
               /\ ~isShopAuthenticated(shopsFile, d)
  /\ SaveFailed
       => /\ last.status = 500
          /\ last.message = "Failed to save access token"

\* the save of a callback failed and left a file that cannot be parsed, where
\* the shop had a token before
C23_Witness ==
  /\ SaveFailed
  /\ last.status = 500
  /\ last.before # ""
  /\ shopsFile.state = "malformed"
  /\ getShopToken(shopsFile, last.shop) = ""

\* ------------------------------------------------------------------------
\* The per-store Shopify client (checked under SpecClient)
\* ------------------------------------------------------------------------

\* createShopifyClient: null ("" here) when the store has no token on record,
\* else a client that carries the token
createShopifyClient(file, shop) == getShopToken(file, shop)

\* what the one HTTP request of a call can come to: no response, or a response
\* with a status and a body. The bodies: a JSON object with its data and its
\* errors (the key missing, or an array), JSON null, and the empty body
ClientResponses ==
  {[kind |-> "transport"]}
    \cup {[kind |-> "response", status |-> s,
           body |-> [type |-> "object", data |-> d, errors |-> e]] :
            s \in {200, 201, 401, 500},
            d \in {"absent", "d1"},
            e \in {[present |-> FALSE, list |-> <<>>]}
                     \cup {[present |-> TRUE, list |-> l] :
                             l \in {<<>>, <<"e1">>, <<"e1", "e2">>}}}
    \cup {[kind |-> "response", status |-> s, body |-> [type |-> t]] :
            s \in {200, 401}, t \in {"null", "empty"}}

\* the errors of a 2xx body reported as if there were none
shopifyGraphQL_errorsIgnored(response) ==
  IF response.kind = "transport"
    THEN [kind |-> "thrown", name |-> "Connection error"]
  ELSE IF response.status \notin 200..299
    THEN [kind |-> "thrown", name |-> "Shopify API Error",
          status |-> response.status, details |-> response.body]
  ELSE IF response.body.type = "null"
    THEN [kind |-> "thrown", name |-> "Connection error"]
  ELSE IF response.body.type = "empty"
    THEN [kind |-> "returned", value |-> "absent"]
  ELSE [kind |-> "returned", value |-> response.body.data]

\* shopifyGraphQL from the return of client.post: axios rejects without a
\* response on a transport failure and with error.response on a status
\* outside 2xx; reading .errors of a null body throws inside the try, and the
\* catch reports every error that has neither .response nor .shopifyErrors
\* as a connection error
shopifyGraphQL(response) ==
  IF response.kind = "transport"
    THEN [kind |-> "thrown", name |-> "Connection error"]
  ELSE IF response.status \notin 200..299
    THEN [kind |-> "thrown", name |-> "Shopify API Error",
          status |-> response.status, details |-> response.body]
  ELSE IF response.body.type = "null"
    THEN [kind |-> "thrown", name |-> "Connection error"]
  ELSE IF response.body.type = "empty"
    THEN [kind |-> "returned", value |-> "absent"]
  ELSE IF response.body.errors.present /\ Len(response.body.errors.list) > 0
    THEN [kind |-> "thrown", name |-> "Shopify GraphQL Error",
          shopifyErrors |-> response.body.errors.list]
  ELSE [kind |-> "returned", value |-> response.body.data]

\* shopifyREST from the return of client(config)
shopifyREST(response) ==
  IF response.kind = "transport"
    THEN [kind |-> "thrown", name |-> "Connection error"]
  ELSE IF response.status \notin 200..299
    THEN [kind |-> "thrown", name |-> "Shopify API Error",
          status |-> response.status, details |-> response.body]
  ELSE [kind |-> "returned", value |-> response.body]

\* a call of shopifyGraphQL or shopifyREST up to its await, or to its throw
\* when there is no client; sent counts the HTTP requests of the call
ClientCall(fn, shop) ==
  LET client == createShopifyClient(shopsFile, shop)
  IN  /\ client # "" => Cardinality(pending) < MaxPending
      /\ pending' = IF client # ""
                      THEN pending \cup
                             {[id |-> FreeSlot, op |-> fn, shop |-> shop,
                               token |-> client, sent |-> 1]}
                      ELSE pending
      /\ last' = IF client # ""
                   THEN [op |-> fn, phase |-> "sync", shop |-> shop,
                         token |-> client, sent |-> 1,
                         result |-> [kind |-> "awaiting"]]
                   ELSE [op |-> fn, phase |-> "sync", shop |-> shop,
                         token |-> client, sent |-> 0,
                         result |-> [kind |-> "thrown",
                                     name |-> "No access token found"]]
      /\ UNCHANGED <<env, variant, nonceStore, timers, nonceCount, shopsFile,
                     issued, consumed>>

\* the call from the return of its await to its return or throw
ClientSettle(p, response) ==
  /\ p \in pending
  /\ pending' = pending \ {p}
  /\ last' = [op |-> p.op, phase |-> "resume", shop |-> p.shop,
              token |-> p.token, sent |-> p.sent, response |-> response,
              result |-> IF p.op = "graphql" THEN shopifyGraphQL(response)
                         ELSE shopifyREST(response)]
  /\ UNCHANGED <<env, variant, nonceStore, timers, nonceCount, shopsFile,
                 issued, consumed>>

InitClient ==
  /\ env = EnvValue
  /\ variant = "current"
  /\ nonceStore = NoNonces
  /\ timers = [n \in {} |-> "waiting"]
  /\ nonceCount = 0
  /\ shopsFile \in OrdersFiles
  /\ pending = {}
  /\ issued = [n \in {} |-> Null]
  /\ consumed = {}
  /\ last = [op |-> "none"]

NextClient ==
  \/ \E fn \in {"graphql", "rest"}, shop \in StoreDomains : ClientCall(fn, shop)
  \/ \E p \in pending, response \in ClientResponses : ClientSettle(p, response)

SpecClient == InitClient /\ [][NextClient]_vars

\* a call of the client has settled
ClientSettled == last.op \in {"graphql", "rest"} /\ last.phase = "resume"

\* the response of the settled call is 2xx with a JSON object as its body
ObjectBody2xx ==
  /\ last.response.kind = "response"
  /\ last.response.status \in 200..299
  /\ last.response.body.type = "object"

\* the body of the settled call has a non-empty errors list
HasErrors ==
  /\ last.response.body.errors.present
  /\ last.response.body.errors.list # <<>>

InitService == Init /\ env = EnvValue

\* the requests of the model: GET /auth and callbacks for shops A and B, and
\* orders requests that pass the gate, for shops A and B and for no shop
NextService ==
  \/ \E shop \in StoreDomains : GetAuth(shop)
  \/ \E shop \in StoreDomains, state \in 1..MaxNonces :
       AuthCallback(FullQuery(shop, state))
  \/ \E p \in pending, outcome \in ExchangeOutcomes : CallbackResume(p, outcome)
  \/ \E nonce \in DOMAIN timers : TimerFire(nonce)
  \/ \E nonce \in DOMAIN timers : TimePasses(nonce)
  \/ \E shop \in StoreDomains \cup {Undefined} :
       GetOrders([authorization |-> GoodHeader, shop |-> shop,
                  limit |-> Undefined, status |-> Unset])
  \/ \E shop \in StoreDomains \cup {Undefined} :
       GetOrder([authorization |-> GoodHeader, shop |-> shop,
                 orderId |-> "1001"])
  \/ \E p \in pending, outcome \in FetchOutcomes : OrdersResume(p, outcome)
  \/ \E p \in pending, outcome \in FetchOutcomes : OrderResume(p, outcome)

SpecService == InitService /\ [][NextService]_vars

\* the request p, suspended at its await, can get any answer of Shopify now
CanResume(p) ==
  IF p.op = "callback"
    THEN \A outcome \in ExchangeOutcomes : ENABLED CallbackResume(p, outcome)
  ELSE IF p.op = "orders"
    THEN \A outcome \in FetchOutcomes : ENABLED OrdersResume(p, outcome)
  ELSE \A outcome \in FetchOutcomes : ENABLED OrderResume(p, outcome)

\* requests that are answered with no call to Shopify can be served now
CanAnswer ==
  /\ ENABLED GetAuth(ShopEvil)
  /\ ENABLED AuthCallback(FullQuery(ShopA, 0))
  /\ ENABLED GetOrders([authorization |-> GoodHeader, shop |-> Undefined,
                        limit |-> Undefined, status |-> Unset])
  /\ ENABLED GetOrder([authorization |-> Undefined, shop |-> ShopA,
                       orderId |-> "1001"])

\* C25: a request suspended at its call to Shopify holds up no other request:
\* whatever requests are suspended, each of them can be resumed first, with
\* any answer of Shopify, and requests that need no call to Shopify can be
\* answered; a step of one request leaves every other suspended request as it
\* was; and no request changes anything of the process but the nonce table
\* (with its timers) and the token table.
C25_NoRequestWaitsForAnother ==
  /\ [](\A p \in pending : CanResume(p))
  /\ [](pending # {} => CanAnswer)
  /\ [][/\ Cardinality(pending \ pending') <= 1
        /\ Cardinality(pending' \ pending) <= 1
        /\ pending' # pending =>
             Cardinality(pending \ pending') + Cardinality(pending' \ pending) = 1
        /\ env' = env
        /\ variant' = variant]_vars

\* an orders request was answered with Shopify's orders while the token
\* exchange of a callback, started before, was still in flight
C25_Witness ==
  /\ last.op = "orders"
  /\ last.phase = "resume"
  /\ last.status = 200
  /\ \E p \in pending : p.op = "callback"

\* ------------------------------------------------------------------------
\* Concurrent callbacks with one state (checked under Spec)
\* ------------------------------------------------------------------------

\* the step is a callback that goes on to the token exchange
ExchangeStep ==
  /\ last' # last
  /\ last'.op = "callback"
  /\ last'.phase = "sync"
  /\ last'.upstream # "none"

\* C26: of the callbacks that carry one state, at most one goes on to the
\* token exchange: the step that does finds the nonce in the table and leaves
\* the table without it, no callback went on with that state before, and no
\* two suspended callbacks have the same state; a callback that passes the
\* parameter, shop, configuration and HMAC checks with a state another
\* callback went on with is answered 403 and sends no POST, whether or not
\* that other callback has had its answer; and the exchanges started never
\* outnumber the nonces issued.
C26_OneExchangePerNonce ==
  /\ [][ExchangeStep
          => /\ last'.query.state \in DOMAIN nonceStore
             /\ last'.query.state \notin DOMAIN nonceStore'
             /\ last'.query.state \notin consumed
             /\ \A p \in pending : p.state # last'.query.state
             /\ consumed' = consumed \cup {last'.query.state}]_vars
  /\ [](\A p, q \in pending : p.state = q.state => p = q)
  /\ []((ReachedHmacCheck /\ ~BadHmac /\ last.replay)
          => last.status = 403 /\ last.upstream = "none")
  /\ [](Cardinality(consumed) <= nonceCount)

\* a callback came with the state and the shop of a callback still suspended
\* at its token exchange, and was answered 403
C26_Witness ==
  /\ ReachedHmacCheck
  /\ ~BadHmac
  /\ last.status = 403
  /\ \E p \in pending :
       /\ p.op = "callback"
       /\ p.state = last.query.state
       /\ p.shop = normalizeShopDomain(last.query.shop)

\* ------------------------------------------------------------------------
\* The OAuth routes and direct calls of the store (checked under
\* SpecOAuthStore)
\* ------------------------------------------------------------------------

\* GET /auth and unsigned callbacks for shops A and B, with saveShopToken and
\* removeShop called for them by other code of the process
NextOAuthStore ==
  \/ \E shop \in StoreDomains : GetAuth(shop)
  \/ \E shop \in StoreDomains, state \in 1..MaxNonces :
       AuthCallback(FullQuery(shop, state))
  \/ \E p \in pending, outcome \in ExchangeOutcomes : CallbackResume(p, outcome)
  \/ \E nonce \in DOMAIN timers : TimerFire(nonce)
  \/ \E nonce \in DOMAIN timers : TimePasses(nonce)
  \/ \E d \in StoreDomains : StoreSave(d, "shpat_1")
  \/ \E d \in StoreDomains : StoreRemove(d)

SpecOAuthStore == InitService /\ [][NextOAuthStore]_vars

\* the step is a callback that saved its token, or a call of saveShopToken or
\* removeShop that returned true
WriteSucceeded ==
  /\ last' # last \/ shopsFile' # shopsFile
  /\ \/ last'.op = "callback" /\ last'.phase = "resume" /\ last'.status = 200
     \/ last'.op \in {"save", "remove"} /\ last'.returned

\* the token the step wrote for its shop
WrittenToken ==
  IF last'.op = "callback" THEN last'.outcome.access_token ELSE last'.token

\* C27: a callback that saves its token, and a saveShopToken or removeShop
\* call whose write succeeds, leaves the record of every other domain as it
\* was: so after successful callbacks for two domains, in whatever order their
\* steps came, the table holds both records. A save leaves its own domain
\* with the token saved, and a remove leaves it with no record.
C27_OtherDomainsKept ==
  [][WriteSucceeded
       => /\ getAllShops(shopsFile') \ {last'.shop}
               = getAllShops(shopsFile) \ {last'.shop}
          /\ \A d \in getAllShops(shopsFile) \ {last'.shop} :
               getShopToken(shopsFile', d) = getShopToken(shopsFile, d)
          /\ getShopToken(shopsFile', last'.shop) = WrittenToken]_vars

\* the callback for shop B saved its token after its nonce and the nonce of
\* shop A were both consumed, and the table holds the tokens of both callbacks
C27_Witness ==
  /\ CallbackResumed
  /\ last.status = 200
  /\ last.shop = ShopB
  /\ last.before = ""
  /\ consumed = {1, 2}
  /\ getAllShops(shopsFile) = {ShopA, ShopB}
  /\ getShopToken(shopsFile, ShopB) = last.outcome.access_token

\* ------------------------------------------------------------------------
\* Callbacks without hmac (checked under Spec)
\* ------------------------------------------------------------------------

\* the callback of the last step carried no hmac, or an empty one
UnsignedCallback == CallbackSync /\ FalsyHmac(last.query.hmac)

\* C28: the HMAC check rejects only callbacks that carry a non-empty hmac: no
\* callback without hmac, or with an empty one, is answered "HMAC verification
\* failed", and one that passes the parameter, shop and configuration checks
\* with a live state issued for its shop goes on to the token exchange. Such a
\* callback can go on to store a token (the witness: the callbacks of the
\* model for shop B are all unsigned).
C28_UnsignedCallbackProceeds ==
  /\ (CallbackSync /\ last.error = "HMAC verification failed")
       => ~FalsyHmac(last.query.hmac)
  /\ (UnsignedCallback /\ ReachedHmacCheck /\ last.live
        /\ issued[last.query.state] = normalizeShopDomain(last.query.shop))
       => /\ last.upstream = "POST access_token"
          /\ last.status = 0
          /\ \E p \in pending :
               /\ p.op = "callback"
               /\ p.state = last.query.state
               /\ p.shop = issued[last.query.state]

\* the token of shop B was stored by a callback that carried no hmac
C28_Witness ==
  /\ CallbackResumed
  /\ last.shop = ShopB
  /\ last.status = 200
  /\ last.changed
  /\ getShopToken(shopsFile, ShopB) = last.outcome.access_token

\* ------------------------------------------------------------------------
\* What changes the token table (checked under SpecService)
\* ------------------------------------------------------------------------

\* C29: the token table changes only in the step of a callback that got an
\* access_token from the exchange and saved it, answering 200; every other
\* step (GET /auth, the orders requests and their answers, callbacks answered
\* 400, 403 or 500) leaves it as it was; and no step takes a record out of the
\* token table.
C29_OnlySavingCallbackWrites ==
  [][/\ readShops(shopsFile') # readShops(shopsFile)
          => /\ last'.op = "callback"
             /\ last'.phase = "resume"
             /\ last'.status = 200
             /\ last'.outcome.access_token # ""
             /\ getShopToken(shopsFile', last'.shop) = last'.outcome.access_token
     /\ getAllShops(shopsFile) \subseteq getAllShops(shopsFile')]_vars

====
